---- MODULE Spec2Model ----
(***************************************************************************)
(* Model of the capa and capk commands of pkg/cmds/config: a filter that   *)
(* reads a multi-document manifest stream, patches nested fields by kind,  *)
(* validates the batch and writes the re-encoded stream.                   *)
(***************************************************************************)
EXTENDS Integers, Sequences, FiniteSets, TLC

\* ------------------------------------------------------------------ bounds

\* Longest input stream (number of documents) a run decodes.
MaxDocs == 2

\* ------------------------------------------------------- program constants

awsManagedControlPlane == "AWSManagedControlPlane"
awsManagedMachinePool == "AWSManagedMachinePool"
machinePool == "MachinePool"
cluster == "Cluster"
controlplaneRoleAnnotation == "eks.amazonaws.com/controlplane-role"
kubevirtMachineTemplate == "KubevirtMachineTemplate"

\* Defaults of --min-node-count and --max-node-count.
DefaultMinNodeCount == 1
DefaultMaxNodeCount == 6

\* The keys of the isFound map that the capa callback ever sets.
TrackedKinds ==
  {awsManagedControlPlane, machinePool, awsManagedMachinePool, cluster}

\* ------------------------------------------------- document representation
\* A decoded value is a string, an integer or a map from keys to values
\* (map[string]any); the tag keeps the three apart.

Str(s) == [t |-> "str", v |-> s]
Num(n) == [t |-> "int", v |-> n]
Map(f) == [t |-> "map", v |-> f]

EmptyMap == [k \in {} |-> Str("")]

\* m[k] = v on a Go map.
Put(m, k, v) == [x \in DOMAIN m \cup {k} |-> IF x = k THEN v ELSE m[x]]

One(k, v) == Put(EmptyMap, k, v)

\* unstructured.SetNestedField(obj, value, fields...): walks all but the last
\* field; a present field must hold a map, an absent one gets a new map; the
\* last field is assigned.  ok = FALSE is the returned error.
RECURSIVE SetNestedField(_, _, _)
SetNestedField(obj, value, fields) ==
  IF Len(fields) = 1
  THEN [ok |-> TRUE, obj |-> Put(obj, fields[1], value)]
  ELSE LET field == Head(fields) IN
       IF field \in DOMAIN obj
       THEN IF obj[field].t = "map"
            THEN LET r == SetNestedField(obj[field].v, value, Tail(fields))
                 IN  [ok |-> r.ok,
                      obj |-> IF r.ok THEN Put(obj, field, Map(r.obj)) ELSE obj]
            ELSE [ok |-> FALSE, obj |-> obj]
       ELSE LET r == SetNestedField(EmptyMap, value, Tail(fields))
            IN  [ok |-> TRUE, obj |-> Put(obj, field, Map(r.obj))]

\* unstructured.SetNestedMap is SetNestedField with a map value.
SetNestedMap(obj, value, fields) == SetNestedField(obj, Map(value), fields)

\* ------------------------------------------------------------ capa rules

managedCPCIDR(obj, vpcCidr) ==
  LET netcfg == One("vpc", Map(One("cidrBlock", Str(vpcCidr))))
  IN  SetNestedMap(obj, netcfg, <<"spec", "network">>)

managedCPRole(obj, roleName) ==
  SetNestedField(obj, Str(roleName), <<"spec", "roleName">>)

\* The scaling rule adding the maximum to the one the document already has.
managedMPScalingAccumulate(obj, minNodeCount, maxNodeCount) ==
  LET has == /\ "spec" \in DOMAIN obj /\ obj["spec"].t = "map"
             /\ "scaling" \in DOMAIN obj["spec"].v
             /\ obj["spec"].v["scaling"].t = "map"
             /\ "maxSize" \in DOMAIN obj["spec"].v["scaling"].v
      top == IF has
             THEN obj["spec"].v["scaling"].v["maxSize"].v + maxNodeCount
             ELSE maxNodeCount
      scaling == Put(One("minSize", Num(minNodeCount)), "maxSize", Num(top))
  IN  SetNestedMap(obj, scaling, <<"spec", "scaling">>)

\* The scaling rule with the two bounds exchanged.
managedMPScalingSwapped(obj, minNodeCount, maxNodeCount) ==
  LET scaling == Put(One("minSize", Num(maxNodeCount)),
                     "maxSize", Num(minNodeCount))
  IN  SetNestedMap(obj, scaling, <<"spec", "scaling">>)

managedMPScaling(obj, minNodeCount, maxNodeCount) ==
  LET scaling == Put(One("minSize", Num(minNodeCount)),
                     "maxSize", Num(maxNodeCount))
  IN  SetNestedMap(obj, scaling, <<"spec", "scaling">>)

managedMPRole(obj, roleName) ==
  SetNestedField(obj, Str(roleName), <<"spec", "roleName">>)

clusterAnnotations(obj, managedControlplaneRole) ==
  SetNestedField(obj, Str(managedControlplaneRole),
                 <<"metadata", "annotations", controlplaneRoleAnnotation>>)

\* SetMPConfiguration is called by capa but defined elsewhere in the package:
\* it gives a MachinePool document its scaling bounds.
SetMPConfiguration(obj, minNodeCount, maxNodeCount) ==
  LET scaling == Put(One("minSize", Num(minNodeCount)),
                     "maxSize", Num(maxNodeCount))
  IN  SetNestedMap(obj, scaling, <<"spec", "scaling">>)

\* ------------------------------------------------------------ capk rule

\* The value at a path of a document, Absent when the path does not lead to
\* one.
Absent == [t |-> "absent"]

RECURSIVE GetNested(_, _)
GetNested(obj, fields) ==
  IF Head(fields) \notin DOMAIN obj THEN Absent
  ELSE IF Len(fields) = 1 THEN obj[Head(fields)]
  ELSE IF obj[Head(fields)].t # "map" THEN Absent
  ELSE GetNested(obj[Head(fields)].v, Tail(fields))

\* The capk rule writing the strategy only where the document has none.
setBootstrapCheckStrategyIfAbsent(obj) ==
  LET path == <<"spec", "template", "spec", "virtualMachineBootstrapCheck",
                "checkStrategy">>
  IN  IF GetNested(obj, path) # Absent THEN [ok |-> TRUE, obj |-> obj]
      ELSE SetNestedField(obj, Str("none"), path)

setBootstrapCheckStrategy(obj) ==
  SetNestedField(obj, Str("none"),
    <<"spec", "template", "spec", "virtualMachineBootstrapCheck",
      "checkStrategy">>)

\* ------------------------------------------------------------ validation

ErrCidr == "failed to get AWSManagedControlPlane for cidr update"
ErrCPRole == "failed to get AWSManagedControlPlane for role configuration"
ErrBounds == "max node count can't be less than min node count"
ErrMPRole == "failed to get AWSManagedMachinePool for role configuration"
ErrCluster == "failed to get ControlPlane to update annotations"

Violations == {ErrCidr, ErrCPRole, ErrBounds, ErrMPRole, ErrCluster}

validationHelper(found, r) ==
  [isFound |-> found,
   managedControlplaneRole |-> r.managedControlplaneRole,
   managedMachinepoolRole |-> r.managedMachinepoolRole,
   vpcCidr |-> r.vpcCidr,
   minCount |-> r.minNodeCount,
   maxCount |-> r.maxNodeCount]

\* validation without the comparison of the bounds.
validationNoBounds(helper) ==
  IF ~helper.isFound[awsManagedControlPlane] /\ helper.vpcCidr # ""
    THEN ErrCidr
  ELSE IF ~helper.isFound[awsManagedControlPlane]
          /\ helper.managedControlplaneRole # ""
    THEN ErrCPRole
  ELSE IF helper.managedMachinepoolRole # ""
          /\ ~helper.isFound[awsManagedMachinePool]
    THEN ErrMPRole
  ELSE IF ~helper.isFound[cluster] /\ helper.managedControlplaneRole # ""
    THEN ErrCluster
  ELSE "nil"

\* "nil" is the nil error.
validation(helper) ==
  IF ~helper.isFound[awsManagedControlPlane] /\ helper.vpcCidr # ""
    THEN ErrCidr
  ELSE IF ~helper.isFound[awsManagedControlPlane]
          /\ helper.managedControlplaneRole # ""
    THEN ErrCPRole
  ELSE IF helper.minCount > helper.maxCount
    THEN ErrBounds
  ELSE IF helper.managedMachinepoolRole # ""
          /\ ~helper.isFound[awsManagedMachinePool]
    THEN ErrMPRole
  ELSE IF ~helper.isFound[cluster] /\ helper.managedControlplaneRole # ""
    THEN ErrCluster
  ELSE "nil"

\* ------------------------------------------------------------- requests

\* The flag values of one capa invocation (lines 206-210).
DefaultRequest ==
  [vpcCidr |-> "", managedControlplaneRole |-> "",
   managedMachinepoolRole |-> "",
   minNodeCount |-> DefaultMinNodeCount, maxNodeCount |-> DefaultMaxNodeCount]

NodeCountPairs ==
  {<<DefaultMinNodeCount, DefaultMaxNodeCount>>, <<2, 5>>,
   <<7, DefaultMaxNodeCount>>}

Requests ==
  {[vpcCidr |-> c, managedControlplaneRole |-> cp,
    managedMachinepoolRole |-> mp,
    minNodeCount |-> b[1], maxNodeCount |-> b[2]] :
     c \in {"", "10.0.0.0/16"}, cp \in {"", "cp-role"},
     mp \in {"", "mp-role"}, b \in NodeCountPairs}

\* ------------------------------------------------------ input documents

Doc(kind, content) == [kind |-> kind, content |-> content]

ScalarSpec == One("spec", Str("scalar"))

CapaDocs ==
  {Doc(awsManagedControlPlane,
       One("spec", Map(Put(One("roleName", Str("old-role")),
                           "version", Str("v1.29"))))),
   Doc(awsManagedControlPlane, ScalarSpec),
   Doc(machinePool, One("spec", Map(One("replicas", Num(3))))),
   Doc(awsManagedMachinePool, EmptyMap),
   Doc(awsManagedMachinePool, ScalarSpec),
   Doc(cluster,
       One("metadata", Map(One("annotations", Map(One("note", Str("n"))))))),
   Doc(cluster, One("metadata", Map(One("annotations", Str("scalar"))))),
   Doc("Secret", ScalarSpec)}

CapkDocs ==
  {Doc(kubevirtMachineTemplate, EmptyMap),
   Doc(kubevirtMachineTemplate,
       One("spec", Map(One("template", Map(One("spec",
         Map(One("virtualMachineBootstrapCheck",
           Map(One("checkStrategy", Str("ssh"))))))))))),
   Doc(kubevirtMachineTemplate, One("spec", Map(One("template", Str("scalar"))))),
   Doc(cluster, ScalarSpec)}

DocsFor(c) == IF c = "capa" THEN CapaDocs ELSE CapkDocs

\* ------------------------------------------------------------ callbacks
\* A callback result: err is "nil" or "edit" (the error a rule returned),
\* obj the document content after the rules that ran, isFound the map after.

Unchanged(obj) == [ok |-> TRUE, obj |-> obj]

Result(e, found) ==
  [err |-> IF e.ok THEN "nil" ELSE "edit", obj |-> e.obj, isFound |-> found]

\* The control-plane block with the rules' errors dropped instead of returned.
controlPlaneBlockIgnoreErr(s, kind, r) ==
  IF s.err # "nil" \/ kind # awsManagedControlPlane THEN s
  ELSE LET found == [s.isFound EXCEPT ![awsManagedControlPlane] = TRUE]
           e1 == IF r.vpcCidr # "" THEN managedCPCIDR(s.obj, r.vpcCidr)
                 ELSE Unchanged(s.obj)
           e2 == IF r.managedControlplaneRole # ""
                 THEN managedCPRole(e1.obj, r.managedControlplaneRole)
                 ELSE Unchanged(e1.obj)
       IN  [err |-> "nil", obj |-> e2.obj, isFound |-> found]

\* The control-plane block marking the kind found only after its rules passed.
controlPlaneBlockFoundAfterRules(s, kind, r) ==
  IF s.err # "nil" \/ kind # awsManagedControlPlane THEN s
  ELSE LET found == [s.isFound EXCEPT ![awsManagedControlPlane] = TRUE]
           e1 == IF r.vpcCidr # "" THEN managedCPCIDR(s.obj, r.vpcCidr)
                 ELSE Unchanged(s.obj)
       IN  IF ~e1.ok THEN Result(e1, s.isFound)
           ELSE LET e2 == IF r.managedControlplaneRole # ""
                          THEN managedCPRole(e1.obj, r.managedControlplaneRole)
                          ELSE Unchanged(e1.obj)
                IN  Result(e2, IF e2.ok THEN found ELSE s.isFound)

\* The control-plane block writing the role whether one was requested or not.
controlPlaneBlockAlwaysRole(s, kind, r) ==
  IF s.err # "nil" \/ kind # awsManagedControlPlane THEN s
  ELSE LET found == [s.isFound EXCEPT ![awsManagedControlPlane] = TRUE]
           e1 == IF r.vpcCidr # "" THEN managedCPCIDR(s.obj, r.vpcCidr)
                 ELSE Unchanged(s.obj)
       IN  IF ~e1.ok THEN Result(e1, found)
           ELSE Result(managedCPRole(e1.obj, r.managedControlplaneRole), found)

\* Lines 129-143.
controlPlaneBlock(s, kind, r) ==
  IF s.err # "nil" \/ kind # awsManagedControlPlane THEN s
  ELSE LET found == [s.isFound EXCEPT ![awsManagedControlPlane] = TRUE]
           e1 == IF r.vpcCidr # "" THEN managedCPCIDR(s.obj, r.vpcCidr)
                 ELSE Unchanged(s.obj)
       IN  IF ~e1.ok THEN Result(e1, found)
           ELSE Result(IF r.managedControlplaneRole # ""
                       THEN managedCPRole(e1.obj, r.managedControlplaneRole)
                       ELSE Unchanged(e1.obj), found)

\* Lines 145-151.
machinePoolBlock(s, kind, r) ==
  IF s.err # "nil" \/ kind # machinePool THEN s
  ELSE Result(SetMPConfiguration(s.obj, r.minNodeCount, r.maxNodeCount),
              [s.isFound EXCEPT ![machinePool] = TRUE])

\* Lines 153-165.
managedMachinePoolBlock(s, kind, r) ==
  IF s.err # "nil" \/ kind # awsManagedMachinePool THEN s
  ELSE LET found == [s.isFound EXCEPT ![awsManagedMachinePool] = TRUE]
           e1 == managedMPScaling(s.obj, r.minNodeCount, r.maxNodeCount)
       IN  IF ~e1.ok THEN Result(e1, found)
           ELSE Result(IF r.managedMachinepoolRole # ""
                       THEN managedMPRole(e1.obj, r.managedMachinepoolRole)
                       ELSE Unchanged(e1.obj), found)

\* The cluster block recording the Cluster only once a control plane was seen.
clusterBlockAfterCP(s, kind, r) ==
  IF s.err # "nil" \/ kind # cluster THEN s
  ELSE Result(clusterAnnotations(s.obj, r.managedControlplaneRole),
              [s.isFound EXCEPT ![cluster] = s.isFound[awsManagedControlPlane]])

\* Lines 167-173.
clusterBlock(s, kind, r) ==
  IF s.err # "nil" \/ kind # cluster THEN s
  ELSE Result(clusterAnnotations(s.obj, r.managedControlplaneRole),
              [s.isFound EXCEPT ![cluster] = TRUE])

\* The rules part of the capa callback (lines 129-173) on document ri.
capaRules(ri, r, found) ==
  LET s0 == [err |-> "nil", obj |-> ri.content, isFound |-> found]
      s1 == controlPlaneBlock(s0, ri.kind, r)
      s2 == machinePoolBlock(s1, ri.kind, r)
      s3 == managedMachinePoolBlock(s2, ri.kind, r)
  IN  clusterBlock(s3, ri.kind, r)

\* The rules part of the capk callback (lines 44-51); capk has no isFound.
capkRules(ri, found) ==
  IF ri.kind = kubevirtMachineTemplate
  THEN Result(setBootstrapCheckStrategy(ri.content), found)
  ELSE [err |-> "nil", obj |-> ri.content, isFound |-> found]

Rules(c, ri, r, found) ==
  IF c = "capa" THEN capaRules(ri, r, found) ELSE capkRules(ri, found)

\* ------------------------------------------------------------- encoding
\* The output is a sequence of chunks: yaml.Marshal of a document gives one
\* document chunk (never empty), "---\n" is the separator chunk.

Separator == [t |-> "sep"]

Marshal(kind, obj) == <<[t |-> "doc", kind |-> kind, content |-> obj]>>

\* The write into out with the separator put in before every document.
WriteDocAlwaysSeparator(buf, data) == Append(buf, Separator) \o data

\* Lines 179-182: the separator goes in only when the buffer is not empty.
WriteDoc(buf, data) ==
  (IF Len(buf) > 0 THEN Append(buf, Separator) ELSE buf) \o data

\* ------------------------------------------------------------ the state

VARIABLES
  cmd,       \* the command being run: "capa" or "capk"
  req,       \* the flag values of the run
  isFound,   \* capa's isFound map, made once in NewCmdCAPA (line 116)
  isFound0,  \* history: isFound when the current run started
  pc,        \* idle, read, process, validate, write, done, failed
  err,       \* the error RunE returns ("nil" while there is none)
  input,     \* the documents decoded from stdin so far, as decoded
  out,       \* the bytes.Buffer out
  stdout     \* what this run has written to standard output

vars == <<cmd, req, isFound, isFound0, pc, err, input, out, stdout>>

NoneFound == [k \in TrackedKinds |-> FALSE]

\* The state after NewCmdCAPA and NewCmdCAPK.
Init ==
  /\ cmd = "capa"
  /\ req = DefaultRequest
  /\ isFound = NoneFound
  /\ isFound0 = NoneFound
  /\ pc = "idle"
  /\ err = "nil"
  /\ input = <<>>
  /\ out = <<>>
  /\ stdout = <<>>

Fail(e) == pc' = "failed" /\ err' = e

\* cobra parses the flags and enters RunE.  isFound is not touched: it
\* belongs to the command, not to the run.
Execute(c, r) ==
  /\ pc \in {"idle", "done", "failed"}
  /\ cmd' = c
  /\ req' = r
  /\ isFound0' = isFound
  /\ pc' = "read"
  /\ err' = "nil"
  /\ input' = <<>>
  /\ out' = <<>>
  /\ stdout' = <<>>
  /\ UNCHANGED isFound

\* io.ReadAll(os.Stdin) succeeded.
ReadAll ==
  /\ pc = "read"
  /\ pc' = "process"
  /\ UNCHANGED <<cmd, req, isFound, isFound0, err, input, out, stdout>>

\* io.ReadAll(os.Stdin) failed.
ReadAllError ==
  /\ pc = "read"
  /\ Fail("read")
  /\ UNCHANGED <<cmd, req, isFound, isFound0, input, out, stdout>>

\* ProcessResources decodes the next document ri and calls the callback on
\* it: the rules, then yaml.Marshal and the write into out.
Callback(ri) ==
  /\ pc = "process"
  /\ Len(input) < MaxDocs
  /\ LET s == Rules(cmd, ri, req, isFound) IN
     /\ input' = Append(input, ri)
     /\ isFound' = s.isFound
     /\ IF s.err # "nil"
        THEN Fail(s.err) /\ out' = out
        ELSE /\ out' = WriteDoc(out, Marshal(ri.kind, s.obj))
             /\ UNCHANGED <<pc, err>>
  /\ UNCHANGED <<cmd, req, isFound0, stdout>>

\* The same, with yaml.Marshal returning an error (line 176).
CallbackMarshalError(ri) ==
  /\ pc = "process"
  /\ Len(input) < MaxDocs
  /\ LET s == Rules(cmd, ri, req, isFound) IN
     /\ s.err = "nil"
     /\ input' = Append(input, ri)
     /\ isFound' = s.isFound
     /\ Fail("marshal")
  /\ UNCHANGED <<cmd, req, isFound0, out, stdout>>

\* The decoder reports an error: ProcessResources returns it.
DecodeError ==
  /\ pc = "process"
  /\ Fail("decode")
  /\ UNCHANGED <<cmd, req, isFound, isFound0, input, out, stdout>>

\* The end of the input with capa going straight to the write.
EndOfInputSkipValidation ==
  /\ pc = "process"
  /\ pc' = "write"
  /\ UNCHANGED <<cmd, req, isFound, isFound0, err, input, out, stdout>>

\* The decoder reaches the end of the input: ProcessResources returns nil.
\* capa goes on to validation, capk straight to the write.
EndOfInput ==
  /\ pc = "process"
  /\ pc' = IF cmd = "capa" THEN "validate" ELSE "write"
  /\ UNCHANGED <<cmd, req, isFound, isFound0, err, input, out, stdout>>

\* Validation with the buffer written to stdout before the verdict is used.
ValidateAfterWrite ==
  /\ pc = "validate"
  /\ stdout' = out
  /\ LET e == validation(validationHelper(isFound, req)) IN
     IF e = "nil" THEN pc' = "done" /\ err' = err ELSE Fail(e)
  /\ UNCHANGED <<cmd, req, isFound, isFound0, input, out>>

\* Lines 189-200.
Validate ==
  /\ pc = "validate"
  /\ LET e == validation(validationHelper(isFound, req)) IN
     IF e = "nil" THEN pc' = "write" /\ err' = err ELSE Fail(e)
  /\ UNCHANGED <<cmd, req, isFound, isFound0, input, out, stdout>>

\* os.Stdout.Write(out.Bytes()) wrote everything.
Write ==
  /\ pc = "write"
  /\ stdout' = out
  /\ pc' = "done"
  /\ UNCHANGED <<cmd, req, isFound, isFound0, err, input, out>>

\* os.Stdout.Write failed after writing n chunks, short of the whole buffer.
WriteError(n) ==
  /\ pc = "write"
  /\ n < Len(out) \/ Len(out) = 0
  /\ stdout' = SubSeq(out, 1, n)
  /\ Fail("write")
  /\ UNCHANGED <<cmd, req, isFound, isFound0, input, out>>

Next ==
  \/ \E r \in Requests : Execute("capa", r)
  \/ Execute("capk", DefaultRequest)
  \/ ReadAll
  \/ ReadAllError
  \/ \E ri \in DocsFor(cmd) : Callback(ri)
  \/ \E ri \in DocsFor(cmd) : CallbackMarshalError(ri)
  \/ DecodeError
  \/ EndOfInput
  \/ Validate
  \/ Write
  \/ \E n \in 0..Len(out) : WriteError(n)

Spec == Init /\ [][Next]_vars

TypeOK ==
  /\ cmd \in {"capa", "capk"}
  /\ req \in Requests
  /\ pc \in {"idle", "read", "process", "validate", "write", "done", "failed"}
  /\ err \in {"nil", "read", "decode", "edit", "marshal", "write"} \cup Violations
  /\ Len(input) <= MaxDocs

\* ------------------------------------------------------ reading the state

KindsIn(stream) == {stream[i].kind : i \in DOMAIN stream}

\* The isFound map a run builds from nothing over a stream.
FoundIn(stream) == [k \in TrackedKinds |-> k \in KindsIn(stream)]

\* The documents of an output, in order, and the number of separators in it.
DocChunks(buf) == SelectSeq(buf, LAMBDA c : c.t = "doc")
SeparatorCount(buf) == Len(SelectSeq(buf, LAMBDA c : c.t = "sep"))

IsStrictPrefix(a, b) == Len(a) < Len(b) /\ a = SubSeq(b, 1, Len(a))

\* The capa run has had validation's verdict.
CapaValidated ==
  /\ cmd = "capa"
  /\ \/ pc \in {"write", "done"}
     \/ pc = "failed" /\ err \in Violations \cup {"write"}

\* That verdict: "nil" or the violation.
Verdict == IF err \in Violations THEN err ELSE "nil"

\* A path runs through a field of obj that is present and is not a map.
RECURSIVE ScalarOnPath(_, _)
ScalarOnPath(obj, fields) ==
  /\ Len(fields) > 1
  /\ Head(fields) \in DOMAIN obj
  /\ \/ obj[Head(fields)].t # "map"
     \/ ScalarOnPath(obj[Head(fields)].v, Tail(fields))

\* The target paths of the rules that run on a document of a kind.
RulePaths(c, kind, r) ==
  IF c = "capk"
  THEN IF kind = kubevirtMachineTemplate
       THEN {<<"spec", "template", "spec", "virtualMachineBootstrapCheck",
               "checkStrategy">>}
       ELSE {}
  ELSE (IF kind = awsManagedControlPlane /\ r.vpcCidr # ""
        THEN {<<"spec", "network">>} ELSE {})
       \cup (IF kind = awsManagedControlPlane /\ r.managedControlplaneRole # ""
             THEN {<<"spec", "roleName">>} ELSE {})
       \cup (IF kind \in {machinePool, awsManagedMachinePool}
             THEN {<<"spec", "scaling">>} ELSE {})
       \cup (IF kind = awsManagedMachinePool /\ r.managedMachinepoolRole # ""
             THEN {<<"spec", "roleName">>} ELSE {})
       \cup (IF kind = cluster
             THEN {<<"metadata", "annotations", controlplaneRoleAnnotation>>}
             ELSE {})

Blocked(c, ri, r) ==
  \E path \in RulePaths(c, ri.kind, r) : ScalarOnPath(ri.content, path)

\* ------------------------------------------------------------------ claims

C2_OrderAndCount ==
  pc = "done" =>
    LET N == Len(input)
        written == DocChunks(stdout)
    IN  /\ Len(written) = N
        /\ \A i \in 1..N :
             /\ written[i].kind = input[i].kind
             /\ written[i].content = Rules(cmd, input[i], req, NoneFound).obj
        /\ SeparatorCount(stdout) = (IF N = 0 THEN 0 ELSE N - 1)
        /\ \A i \in 1..Len(stdout) :
             stdout[i].t = (IF i % 2 = 1 THEN "doc" ELSE "sep")

\* A successful run over two different documents.
C2_Witness ==
  /\ pc = "done" /\ Len(input) = 2 /\ input[1] # input[2]
  /\ SeparatorCount(stdout) = 1

\* C3 as stated: in a capa run with every flag at its default, each document
\* put in the buffer has the content it had in the input.
C3_NoOpStability ==
  cmd = "capa" /\ req = DefaultRequest =>
    \A i \in 1..Len(DocChunks(out)) :
      DocChunks(out)[i].content = input[i].content

\* The kinds an intent is about, for each intent requested with a value
\* other than its default.
GatedIntents(r) ==
  (IF r.vpcCidr # "" THEN {{awsManagedControlPlane}} ELSE {})
  \cup (IF r.managedControlplaneRole # ""
        THEN {{awsManagedControlPlane}} ELSE {})
  \cup (IF r.managedMachinepoolRole # ""
        THEN {{awsManagedMachinePool}} ELSE {})
  \cup (IF <<r.minNodeCount, r.maxNodeCount>>
           # <<DefaultMinNodeCount, DefaultMaxNodeCount>>
        THEN {{machinePool, awsManagedMachinePool}} ELSE {})

\* The kind a violation names.
NamedKinds(e) ==
  IF e \in {ErrCidr, ErrCPRole} THEN {awsManagedControlPlane}
  ELSE IF e = ErrMPRole THEN {awsManagedMachinePool}
  ELSE {}

\* The requested intents none of whose kinds is in the input stream.
MissingKinds(r, stream) ==
  {kinds \in GatedIntents(r) : kinds \cap KindsIn(stream) = {}}

\* C4 as stated: once validation has given its verdict, a request with an
\* intent whose kind is absent from the input stream has made the run fail
\* with a violation.  Validation reports one violation only, so the
\* violation is let name the kind of any of the missing intents, or be the
\* bounds violation that comes before the later checks.
C4_CrossKindGating ==
  CapaValidated /\ MissingKinds(req, input) # {} =>
    /\ pc = "failed" /\ err \in Violations
    /\ \/ err = ErrBounds
       \/ NamedKinds(err) \cap UNION MissingKinds(req, input) # {}

\* C5: a capa run whose minimum node count exceeds the maximum never gets
\* past validation and never writes anything to standard output.
C5_BoundOrdering ==
  cmd = "capa" /\ req.minNodeCount > req.maxNodeCount =>
    /\ pc \notin {"write", "done"}
    /\ stdout = <<>>

\* Validation rejects min > max although every kind an intent needs is there.
C5_Witness ==
  /\ cmd = "capa" /\ req.minNodeCount > req.maxNodeCount
  /\ pc = "failed" /\ err = ErrBounds
  /\ awsManagedMachinePool \in KindsIn(input)
  /\ Len(out) > 0

\* C6 as stated: a capa run that asked for a control-plane role gets past
\* validation only if a Cluster document is in its input stream.
C6_RolePropagationTarget ==
  cmd = "capa" /\ req.managedControlplaneRole # "" /\ pc \in {"write", "done"}
    => cluster \in KindsIn(input)

\* The same for the first run of a command, whose isFound map starts empty.
FirstRunRolePropagationTarget ==
  cmd = "capa" /\ req.managedControlplaneRole # "" /\ pc \in {"write", "done"}
  /\ isFound0 = NoneFound
    => cluster \in KindsIn(input)

\* C7 as stated: the verdict of validation in a run is the one that run's
\* own input stream and flags give, whatever ran on the command before.
C7_RunScopedDiscovery ==
  CapaValidated =>
    Verdict = validation(validationHelper(FoundIn(input), req))

\* C8: when the callback takes a document with a rule whose path runs
\* through a present non-map field, the run fails there with the rule's
\* error: the rules leave the document as it was, nothing goes into the
\* buffer or to standard output; and the only step after a run failed on an
\* edit error is the start of another run (no document routed, no
\* validation, no write).
C8_FailFast ==
  [][ /\ ( /\ pc = "process"
           /\ Len(input') = Len(input) + 1
           /\ Blocked(cmd, input'[Len(input')], req) )
         => /\ pc' = "failed" /\ err' = "edit"
            /\ out' = out /\ stdout' = <<>>
            /\ Rules(cmd, input'[Len(input')], req, isFound).obj
                 = input'[Len(input')].content
      /\ (pc = "failed" /\ err = "edit")
         => pc' = "read" /\ stdout = <<>> ]_vars

\* A run that failed on the edit error of its second document, the first
\* being in the buffer already.
C8_Witness ==
  /\ pc = "failed" /\ err = "edit"
  /\ Len(input) = 2 /\ Blocked(cmd, input[2], req)
  /\ Len(out) = 1 /\ stdout = <<>>

\* The request of the scenario: bounds 2 and 5, nothing else.
ScenarioRequest ==
  [DefaultRequest EXCEPT !.minNodeCount = 2, !.maxNodeCount = 5]

\* C9 as stated: with bounds 2 and 5 and no role, over a MachinePool document
\* and a Cluster document (neither with a scalar on a rule's path), a run that
\* the environment lets finish succeeds, the MachinePool document carries the
\* bounds 2 and 5 and the Cluster document has the content it had.
C9_Scenario ==
  /\ cmd = "capa" /\ req = ScenarioRequest
  /\ Len(input) = 2
  /\ input[1].kind = machinePool /\ input[2].kind = cluster
  /\ ~Blocked(cmd, input[1], req) /\ ~Blocked(cmd, input[2], req)
  /\ pc \in {"done", "failed"} /\ err \notin {"read", "decode", "marshal", "write"}
  => /\ pc = "done"
     /\ DocChunks(stdout)[1].content.spec.v.scaling
          = Map(Put(One("minSize", Num(2)), "maxSize", Num(5)))
     /\ DocChunks(stdout)[2].content = input[2].content

\* The streams that hold the documents of a stream in any order.
PermutationsOf(stream) ==
  LET N == Len(stream)
      Bijections == {f \in [1..N -> 1..N] : \A i, j \in 1..N : f[i] = f[j] => i = j}
  IN  {[i \in 1..N |-> stream[f[i]]] : f \in Bijections}

\* The isFound map after the callback has taken the documents of a stream.
RECURSIVE FoundAfter(_, _, _)
FoundAfter(stream, found, r) ==
  IF stream = <<>> THEN found
  ELSE FoundAfter(Tail(stream), capaRules(Head(stream), r, found).isFound, r)

\* C10: the verdict validation gave on the input stream is the verdict it
\* gives, from the same isFound map at the start of the run and for the same
\* request, on every permutation of that stream.
C10_OrderIndependence ==
  CapaValidated =>
    \A p \in PermutationsOf(input) :
      validation(validationHelper(FoundAfter(p, isFound0, req), req)) = Verdict

\* A first run that passed validation with a role requested, the Cluster
\* document coming before the control plane.
C10_Witness ==
  /\ CapaValidated /\ pc = "done" /\ isFound0 = NoneFound
  /\ req.managedControlplaneRole # ""
  /\ Len(input) = 2
  /\ input[1].kind = cluster /\ input[2].kind = awsManagedControlPlane

\* The place of a stage in the order of a run.
StageRank(stage) ==
  CASE stage = "read" -> 1
    [] stage = "process" -> 2
    [] stage = "validate" -> 3
    [] stage = "write" -> 4
    [] stage = "done" -> 5
    [] OTHER -> 0

\* A step of a run moves to the next stage or to failed (capk, which has no
\* validation, goes from processing to the write); a run starts only from
\* idle or from a run that ended; validation is entered only once every
\* decoded document went through the callback; standard output is written
\* only from the write stage; nothing follows a failed run but a new run.
StagesForward ==
  /\ pc' # pc =>
       \/ pc' = "read" /\ pc \in {"idle", "done", "failed"}
       \/ /\ pc \in {"read", "process", "validate", "write"}
          /\ \/ pc' = "failed"
             \/ StageRank(pc') = StageRank(pc) + 1
             \/ cmd = "capk" /\ pc = "process" /\ pc' = "write"
  /\ (cmd = "capa" /\ pc = "process" /\ pc' \notin {"process", "failed"})
       => pc' = "validate"
  /\ pc' = "validate" /\ pc # "validate"
       => pc = "process" /\ Len(DocChunks(out)) = Len(input)
  /\ stdout' # stdout => pc = "write" \/ pc' = "read"
  /\ pc = "write" /\ cmd = "capa"
       => validation(validationHelper(isFound, req)) = "nil"
  /\ pc \in {"done", "failed"} => pc' \in {pc, "read"}

C12_PathWriteIdempotence ==
  \A i \in 1..Len(DocChunks(out)) :
    LET written == DocChunks(out)[i]
        again == Rules(cmd, Doc(written.kind, written.content), req, isFound)
    IN  again.err = "nil" /\ again.obj = written.content

\* A successful capa run that replaced the role a control plane already had.
C12_Witness ==
  /\ cmd = "capa" /\ pc = "done" /\ req.managedControlplaneRole # ""
  /\ \E i \in 1..Len(input) :
       /\ input[i].kind = awsManagedControlPlane
       /\ ~ScalarOnPath(input[i].content, <<"spec", "roleName">>)
       /\ DocChunks(stdout)[i].content # input[i].content

\* C13: no step ever turns an entry of isFound from true to false; and in a
\* capa run that started with the map empty, after every step isFound[K] is
\* true exactly when a document of kind K is among the documents the callback
\* has taken so far, the one whose rule failed included.
C13_DiscoveryTracking ==
  [][ /\ \A k \in TrackedKinds : isFound[k] => isFound'[k]
      /\ (cmd' = "capa" /\ isFound0' = NoneFound) => isFound' = FoundIn(input')
    ]_vars

\* A first capa run that failed on a rule of its second document: both
\* kinds are recorded.
C13_Witness ==
  /\ cmd = "capa" /\ isFound0 = NoneFound
  /\ pc = "failed" /\ err = "edit" /\ Len(input) = 2
  /\ input[1].kind # input[2].kind
  /\ isFound[input[1].kind] /\ isFound[input[2].kind]

CheckStrategyPath ==
  <<"spec", "template", "spec", "virtualMachineBootstrapCheck",
    "checkStrategy">>

\* C14: a capk run never enters validation and never fails on a violation;
\* in a successful capk run every KubevirtMachineTemplate document written
\* has checkStrategy "none" at its path, and every document of another kind
\* is written with the content it had in the input.
C14_CapkStructuralRule ==
  cmd = "capk" =>
    /\ pc # "validate" /\ err \notin Violations
    /\ pc = "done" =>
         \A i \in 1..Len(input) :
           LET written == DocChunks(stdout)[i] IN
           IF written.kind = kubevirtMachineTemplate
           THEN GetNested(written.content, CheckStrategyPath) = Str("none")
           ELSE written.content = input[i].content

\* A successful capk run over a template that had another strategy and a
\* document of another kind.
C14_Witness ==
  /\ cmd = "capk" /\ pc = "done" /\ Len(input) = 2
  /\ input[1].kind = kubevirtMachineTemplate
  /\ GetNested(input[1].content, CheckStrategyPath) = Str("ssh")
  /\ input[2].kind # kubevirtMachineTemplate

\* Two maps agree on every key outside a set of keys.
SameExcept(a, b, keys) ==
  \A k \in (DOMAIN a \cup DOMAIN b) \ keys :
    k \in DOMAIN a /\ k \in DOMAIN b /\ a[k] = b[k]

\* The spec map of a document (empty when it has none).
SpecOf(obj) ==
  IF "spec" \in DOMAIN obj /\ obj["spec"].t = "map" THEN obj["spec"].v
  ELSE EmptyMap

\* C15: when the capa callback takes a document of a kind other than the
\* four tracked ones, isFound is left as it is and the document goes into the
\* buffer with the content it had; when it takes an AWSManagedControlPlane
\* document and puts it in the buffer, the content differs from the input's
\* at most at spec.network and spec.roleName, spec.network is the input's
\* when no vpc-cidr was requested, spec.roleName is the input's when no
\* managedcp-role was requested, and with neither the content is the same.
C15_RoutingFrame ==
  [][ (cmd = "capa" /\ Len(input') = Len(input) + 1) =>
        LET ri == input'[Len(input')]
            written == out'[Len(out')].content
        IN  /\ ri.kind \notin TrackedKinds =>
                 /\ isFound' = isFound
                 /\ pc' # "failed" => out' # out /\ written = ri.content
            /\ (ri.kind = awsManagedControlPlane /\ out' # out) =>
                 /\ SameExcept(written, ri.content, {"spec"})
                 /\ SameExcept(SpecOf(written), SpecOf(ri.content),
                               {"network", "roleName"})
                 /\ req.vpcCidr = "" =>
                      GetNested(written, <<"spec", "network">>)
                        = GetNested(ri.content, <<"spec", "network">>)
                 /\ req.managedControlplaneRole = "" =>
                      GetNested(written, <<"spec", "roleName">>)
                        = GetNested(ri.content, <<"spec", "roleName">>)
                 /\ (req.vpcCidr = "" /\ req.managedControlplaneRole = "")
                      => written = ri.content
    ]_vars

\* A successful capa run with a vpc-cidr and no role over a control plane
\* that had a role, followed by a document of an untracked kind.
C15_Witness ==
  /\ cmd = "capa" /\ pc = "done" /\ Len(input) = 2
  /\ req.vpcCidr # "" /\ req.managedControlplaneRole = ""
  /\ input[1].kind = awsManagedControlPlane
  /\ GetNested(input[1].content, <<"spec", "roleName">>) = Str("old-role")
  /\ GetNested(DocChunks(stdout)[1].content, <<"spec", "network">>) # Absent
  /\ input[2].kind \notin TrackedKinds

\* C16: in capa, every AWSManagedMachinePool document that has reached
\* stdout carries spec.scaling.minSize equal to the requested minimum and
\* spec.scaling.maxSize equal to the requested maximum, and the minimum is
\* at most the maximum.
C16_EmittedScalingOrdered ==
  cmd = "capa" =>
    \A i \in 1..Len(DocChunks(stdout)) :
      LET written == DocChunks(stdout)[i] IN
        written.kind = awsManagedMachinePool =>
          LET minSize == GetNested(written.content,
                                   <<"spec", "scaling", "minSize">>)
              maxSize == GetNested(written.content,
                                   <<"spec", "scaling", "maxSize">>)
          IN  /\ minSize = Num(req.minNodeCount)
              /\ maxSize = Num(req.maxNodeCount)
              /\ minSize.v <= maxSize.v

\* A machine pool without a spec written to stdout under bounds that are
\* not the defaults.
C16_Witness ==
  /\ cmd = "capa" /\ pc = "done"
  /\ req.minNodeCount # DefaultMinNodeCount
  /\ req.minNodeCount < req.maxNodeCount
  /\ \E i \in 1..Len(input) :
       /\ input[i].kind = awsManagedMachinePool
       /\ input[i].content = EmptyMap
       /\ DocChunks(stdout)[i].kind = awsManagedMachinePool

====
